---------------------------- MODULE Spec2Model ----------------------------
(***************************************************************************)
(* A model of the Kilovolt client (src/kilovolt/connection.py): the        *)
(* KilovoltClient object, the callers' coroutines that run its methods,    *)
(* the background read task and the server at the other end of the        *)
(* websocket.                                                              *)
(*                                                                         *)
(* asyncio runs one coroutine at a time and switches only at an await      *)
(* that suspends, so every action below is the code between two            *)
(* suspension points of one coroutine:                                     *)
(*   - `await self.websocket.send(...)` (line 87): the frame is handed to  *)
(*     the transport, then the coroutine may be suspended (pc = "drain");  *)
(*   - `await fut` (line 93): suspended until the future is done           *)
(*     (pc = "await");                                                     *)
(*   - `async for message in self.websocket` (line 36): the read task      *)
(*     waits for the next inbound frame.                                   *)
(* Strings that the code takes apart (keys, prefixes) are sequences of     *)
(* characters.                                                             *)
(***************************************************************************)
EXTENDS Naturals, Sequences, FiniteSets, Bags, TLC

\* ------------------------------------------------------------------ bounds
\* Commands written to the transport over a whole run.
MaxSends == 2
\* Frames the server emits over a whole run.
MaxFrames == 3

\* ------------------------------------------------------------- input sets
Callers == {"c1", "c2"}
Listeners == {"L1", "L2"}
\* What generate_rid may return (os.urandom: any value, repeats included).
Rids == {"r1", "r2"}
\* Keys and prefixes, as sequences of characters.
Patterns == {<<"a">>, <<"a", "b">>}
PushKeys == {<<"a">>, <<"a", "b">>, <<"a", "c">>}
Values == {"v1"}
Versions == {"v9"}

None == "None"
NoKey == <<>>

\* ------------------------------------------------------------------ state
VARIABLES
    password,               \* self.password: None or the credential
    websocket,              \* self.websocket: "None", "open" or "closed"
    read_task,              \* the read task: "None", "running", "ended", "crashed"
    pending,                \* self.__pending: request id -> index of its future
    futs,                   \* the futures created by send, in creation order
    key_subscriptions,      \* self.__key_subscriptions: key -> set of callbacks
    prefix_subscriptions,   \* self.__prefix_subscriptions: prefix -> set of callbacks
    version,                \* self.version
    connected,              \* self.connected
    wire,                   \* the commands written to the transport, in order
    inbox,                  \* inbound frames not yet taken by the read task
    nframes,                \* frames the server has emitted so far
    last,                   \* what the read task did with the last frame it took
    pc,                     \* each caller's position
    op,                     \* each caller's running method and its arguments
    rid,                    \* send's local request_id, per caller
    fut,                    \* send's local fut, per caller
    ret                     \* what each caller's last call returned or raised

vars == <<password, websocket, read_task, pending, futs, key_subscriptions,
          prefix_subscriptions, version, connected, wire, inbox, nframes, last,
          pc, op, rid, fut, ret>>

client == <<password, websocket, read_task, pending, futs, key_subscriptions,
            prefix_subscriptions, version, connected>>
registries == <<key_subscriptions, prefix_subscriptions>>
server == <<inbox, nframes>>
callers == <<pc, op, rid, fut, ret>>

\* ---------------------------------------------------------------- helpers
EmptyMap == [x \in {} |-> {}]

\* d[k] = v, for a dict d modelled as a function on its keys.
DictSet(d, k, v) == [x \in DOMAIN d \cup {k} |-> IF x = k THEN v ELSE d[x]]

\* del d[k]
DictDel(d, k) == [x \in DOMAIN d \ {k} |-> d[x]]

\* str.startswith
startswith(key, prefix) ==
    /\ Len(prefix) <= Len(key)
    /\ \A i \in 1..Len(prefix) : key[i] = prefix[i]

NoFrame == [kind |-> "none", seq |-> 0, request_id |-> None, ok |-> FALSE,
            key |-> NoKey, new_value |-> None, version |-> None]

NoOp == [name |-> "none", pat |-> NoKey, cb |-> None, command |-> None]
NoRet == [status |-> "none", error |-> None, value |-> NoFrame]
RetOk(v) == [status |-> "ok", error |-> None, value |-> v]
RetRaised(e) == [status |-> "raised", error |-> e, value |-> NoFrame]

NewFuture == [done |-> FALSE, result |-> NoFrame]

\* What the read task did with a frame: the frame, the branch of the loop
\* body it took, and the calls it made to listeners.
Entry(data, effect, calls) == [frame |-> data, effect |-> effect, calls |-> calls]
NoEntry == Entry(NoFrame, "none", EmptyBag)

\* ------------------------------------------------------------------- init
Init ==
    /\ password \in {None, "secret"}
    /\ websocket = None
    /\ read_task = None
    /\ pending = EmptyMap
    /\ futs = <<>>
    /\ key_subscriptions = EmptyMap
    /\ prefix_subscriptions = EmptyMap
    /\ version = None
    /\ connected = FALSE
    /\ wire = <<>>
    /\ inbox = <<>>
    /\ nframes = 0
    /\ last = NoEntry
    /\ pc = [c \in Callers |-> "idle"]
    /\ op = [c \in Callers |-> NoOp]
    /\ rid = [c \in Callers |-> None]
    /\ fut = [c \in Callers |-> 0]
    /\ ret = [c \in Callers |-> NoRet]


\* ----------------------------------------------------------------- errors
\* What a call raises, named by the exception and the line that raises it.
AttributeError == "AttributeError"          \* self.websocket is None (line 87)
ConnectionClosed == "ConnectionClosed"      \* websocket.send on a closed transport
KeyNotSubscribed == "ValueError: key not subscribed"
PrefixNotSubscribed == "ValueError: prefix not subscribed"
ServerError == "ValueError: response error"  \* ValueError(response["error"])
KeyError == "KeyError"
CancelledError == "CancelledError"

\* ------------------------------------------------------------------- send
\* What os.urandom(16).translate(tbl) may produce.
generate_rid == Rids

\* message = data.copy(); message["request_id"] = request_id
Message(o, r) == [command |-> o.command, arg |-> o.pat, request_id |-> r]

\* (C5's mutant: a closed websocket takes the frame.)
WriteFailsOnlyNone(ws) == ws = None

\* What `await self.websocket.send(...)` raises instead of writing:
\* None has no send; a closed websocket raises ConnectionClosed.
WriteFails(ws) == ws # "open"
WriteError(ws) == IF ws = None THEN AttributeError ELSE ConnectionClosed

\* send, lines 82-87, run by caller c as a part of method call o: the request
\* id is drawn and the frame is written, or the write raises and the
\* exception leaves the method.
SendOn(ws, c, o) ==
    \E r \in generate_rid :
        IF WriteFails(ws)
        THEN /\ pc' = [pc EXCEPT ![c] = "returned"]
             /\ op' = [op EXCEPT ![c] = o]
             /\ ret' = [ret EXCEPT ![c] = RetRaised(WriteError(ws))]
             /\ UNCHANGED <<wire, rid>>
        ELSE /\ Len(wire) < MaxSends
             /\ wire' = Append(wire, Message(o, r))
             /\ rid' = [rid EXCEPT ![c] = r]
             /\ pc' = [pc EXCEPT ![c] = "drain"]
             /\ op' = [op EXCEPT ![c] = o]
             /\ ret' = [ret EXCEPT ![c] = NoRet]

\* send called on the client as it is.
SendBegin(c, o) == SendOn(websocket, c, o)

\* self.__pending[request_id] = fut
RegisterPending(r, i) == DictSet(pending, r, i)

\* send, lines 90-93: the future is created and stored, and awaited.
SendRegister(c) ==
    /\ pc[c] = "drain"
    /\ futs' = Append(futs, NewFuture)
    /\ pending' = RegisterPending(rid[c], Len(futs) + 1)
    /\ fut' = [fut EXCEPT ![c] = Len(futs) + 1]
    /\ pc' = [pc EXCEPT ![c] = "await"]
    /\ UNCHANGED <<password, websocket, read_task, registries, version,
                   connected, wire, server, last, op, rid, ret>>

\* The method call of caller c ends: it returns or raises r.
Finish(c, r) ==
    /\ pc' = [pc EXCEPT ![c] = "returned"]
    /\ ret' = [ret EXCEPT ![c] = r]

\* ------------------------------------------------------ the public methods
\* send(data) called directly (as get, set, list, ... do).
Send(c) ==
    /\ pc[c] = "idle"
    /\ SendBegin(c, [name |-> "send", pat |-> NoKey, cb |-> None, command |-> "kget"])
    /\ UNCHANGED <<client, server, last, fut>>

\* connect, line 67: `await websockets.connect(...)`. A client is connected
\* once.
Connect(c) ==
    /\ pc[c] = "idle"
    /\ websocket = None
    /\ \A d \in Callers : op[d].name # "connect"
    /\ pc' = [pc EXCEPT ![c] = "connecting"]
    /\ op' = [op EXCEPT ![c] = [name |-> "connect", pat |-> NoKey, cb |-> None,
                                command |-> None]]
    /\ ret' = [ret EXCEPT ![c] = NoRet]
    /\ UNCHANGED <<client, wire, server, last, rid, fut>>

\* connect, lines 67-72: the transport is open, the read task is created
\* and, with a password, __auth starts with send({"command": "klogin"}).
ConnectOpened(c) ==
    /\ pc[c] = "connecting"
    /\ websocket' = "open"
    /\ read_task' = "running"
    /\ IF password # None
       THEN SendOn("open", c, [op[c] EXCEPT !.command = "klogin"])
       ELSE /\ Finish(c, RetOk(NoFrame))
            /\ UNCHANGED <<wire, rid, op>>
    /\ UNCHANGED <<password, pending, futs, registries, version, connected,
                   server, last, fut>>

\* subscribe, lines 183-187.
subscribe(c, key, callback) ==
    /\ pc[c] = "idle"
    /\ LET o == [name |-> "subscribe", pat |-> key, cb |-> callback, command |-> "ksub"]
       IN  IF key \notin DOMAIN key_subscriptions
           THEN /\ SendBegin(c, o)
                /\ UNCHANGED key_subscriptions
           ELSE /\ key_subscriptions' =
                       [key_subscriptions EXCEPT ![key] = @ \cup {callback}]
                /\ op' = [op EXCEPT ![c] = o]
                /\ Finish(c, RetOk(NoFrame))
                /\ UNCHANGED <<wire, rid>>
    /\ UNCHANGED <<password, websocket, read_task, pending, futs,
                   prefix_subscriptions, version, connected, server, last, fut>>

\* `len(self.__key_subscriptions) < 1` (line 202, and 233 for prefixes): the
\* number of keys of the whole dict.
LastSubscriber(subscriptions, key) == Cardinality(DOMAIN subscriptions) < 1

\* unsubscribe, lines 197-203.
unsubscribe(c, key, callback) ==
    /\ pc[c] = "idle"
    /\ LET o == [name |-> "unsubscribe", pat |-> key, cb |-> callback,
                 command |-> "kunsub"]
           removed == [key_subscriptions EXCEPT ![key] = @ \ {callback}]
       IN  IF key \notin DOMAIN key_subscriptions
           THEN /\ op' = [op EXCEPT ![c] = o]
                /\ Finish(c, RetRaised(KeyNotSubscribed))
                /\ UNCHANGED <<key_subscriptions, wire, rid>>
           ELSE IF callback \notin key_subscriptions[key]
           THEN \* set.remove of a missing element
                /\ op' = [op EXCEPT ![c] = o]
                /\ Finish(c, RetRaised(KeyError))
                /\ UNCHANGED <<key_subscriptions, wire, rid>>
           ELSE /\ key_subscriptions' = removed
                /\ IF LastSubscriber(removed, key)
                   THEN SendBegin(c, o)
                   ELSE /\ op' = [op EXCEPT ![c] = o]
                        /\ Finish(c, RetOk(NoFrame))
                        /\ UNCHANGED <<wire, rid>>
    /\ UNCHANGED <<password, websocket, read_task, pending, futs,
                   prefix_subscriptions, version, connected, server, last, fut>>

\* subscribe_prefix, lines 214-218.
subscribe_prefix(c, prefix, callback) ==
    /\ pc[c] = "idle"
    /\ LET o == [name |-> "subscribe_prefix", pat |-> prefix, cb |-> callback,
                 command |-> "ksub-prefix"]
       IN  IF prefix \notin DOMAIN prefix_subscriptions
           THEN /\ SendBegin(c, o)
                /\ UNCHANGED prefix_subscriptions
           ELSE /\ prefix_subscriptions' =
                       [prefix_subscriptions EXCEPT ![prefix] = @ \cup {callback}]
                /\ op' = [op EXCEPT ![c] = o]
                /\ Finish(c, RetOk(NoFrame))
                /\ UNCHANGED <<wire, rid>>
    /\ UNCHANGED <<password, websocket, read_task, pending, futs,
                   key_subscriptions, version, connected, server, last, fut>>

\* unsubscribe_prefix, lines 228-234.
unsubscribe_prefix(c, prefix, callback) ==
    /\ pc[c] = "idle"
    /\ LET o == [name |-> "unsubscribe_prefix", pat |-> prefix, cb |-> callback,
                 command |-> "kunsub-prefix"]
           removed == [prefix_subscriptions EXCEPT ![prefix] = @ \ {callback}]
       IN  IF prefix \notin DOMAIN prefix_subscriptions
           THEN /\ op' = [op EXCEPT ![c] = o]
                /\ Finish(c, RetRaised(PrefixNotSubscribed))
                /\ UNCHANGED <<prefix_subscriptions, wire, rid>>
           ELSE IF callback \notin prefix_subscriptions[prefix]
           THEN /\ op' = [op EXCEPT ![c] = o]
                /\ Finish(c, RetRaised(KeyError))
                /\ UNCHANGED <<prefix_subscriptions, wire, rid>>
           ELSE /\ prefix_subscriptions' = removed
                /\ IF LastSubscriber(removed, prefix)
                   THEN SendBegin(c, o)
                   ELSE /\ op' = [op EXCEPT ![c] = o]
                        /\ Finish(c, RetOk(NoFrame))
                        /\ UNCHANGED <<wire, rid>>
    /\ UNCHANGED <<password, websocket, read_task, pending, futs,
                   key_subscriptions, version, connected, server, last, fut>>

\* (C10's mutant: the answer to kauth is not looked at.)
AuthResultIgnored(response) == RetOk(NoFrame)

\* __auth, lines 246-247: what __auth, and so connect, ends with once the
\* response to kauth is there.
AuthResult(response) ==
    IF ~response.ok THEN RetRaised(ServerError) ELSE RetOk(NoFrame)

\* ------------------------------------------- after `response = await fut`
\* send, lines 93-94, and the rest of the method that awaited it: caller c
\* resumes once its future is done.
SendResume(c) ==
    /\ pc[c] = "await"
    /\ futs[fut[c]].done
    /\ LET response == futs[fut[c]].result
           o == op[c]
       IN  CASE o.name = "send" ->
                    \* return response
                    /\ Finish(c, RetOk(response))
                    /\ UNCHANGED <<registries, wire, rid, op>>
             [] o.name = "subscribe" ->
                    \* lines 185-187; the response is not looked at
                    /\ key_subscriptions' = DictSet(key_subscriptions, o.pat, {o.cb})
                    /\ Finish(c, RetOk(NoFrame))
                    /\ UNCHANGED <<prefix_subscriptions, wire, rid, op>>
             [] o.name = "subscribe_prefix" ->
                    \* lines 216-218
                    /\ prefix_subscriptions' =
                           DictSet(prefix_subscriptions, o.pat, {o.cb})
                    /\ Finish(c, RetOk(NoFrame))
                    /\ UNCHANGED <<key_subscriptions, wire, rid, op>>
             [] o.name = "unsubscribe" ->
                    \* line 204
                    /\ IF o.pat \in DOMAIN key_subscriptions
                       THEN /\ key_subscriptions' = DictDel(key_subscriptions, o.pat)
                            /\ Finish(c, RetOk(NoFrame))
                       ELSE /\ Finish(c, RetRaised(KeyError))
                            /\ UNCHANGED key_subscriptions
                    /\ UNCHANGED <<prefix_subscriptions, wire, rid, op>>
             [] o.name = "unsubscribe_prefix" ->
                    \* line 235
                    /\ IF o.pat \in DOMAIN prefix_subscriptions
                       THEN /\ prefix_subscriptions' =
                                   DictDel(prefix_subscriptions, o.pat)
                            /\ Finish(c, RetOk(NoFrame))
                       ELSE /\ Finish(c, RetRaised(KeyError))
                            /\ UNCHANGED prefix_subscriptions
                    /\ UNCHANGED <<key_subscriptions, wire, rid, op>>
             [] o.name = "connect" /\ o.command = "klogin" ->
                    \* __auth, lines 240-245: the challenge is read from
                    \* response["data"], which a failure response lacks, and
                    \* kauth is sent.
                    /\ IF ~response.ok
                       THEN /\ Finish(c, RetRaised(KeyError))
                            /\ UNCHANGED <<wire, rid, op>>
                       ELSE SendBegin(c, [o EXCEPT !.command = "kauth"])
                    /\ UNCHANGED registries
             [] o.name = "connect" /\ o.command = "kauth" ->
                    \* __auth, lines 246-247
                    /\ Finish(c, AuthResult(response))
                    /\ UNCHANGED <<registries, wire, rid, op>>
    /\ UNCHANGED <<password, websocket, read_task, pending, futs, version,
                   connected, server, last, fut>>

\* The caller takes the result of its call and is free to make another.
Return(c) ==
    /\ pc[c] = "returned"
    /\ pc' = [pc EXCEPT ![c] = "idle"]
    /\ op' = [op EXCEPT ![c] = NoOp]
    /\ rid' = [rid EXCEPT ![c] = None]
    /\ fut' = [fut EXCEPT ![c] = 0]
    /\ ret' = [ret EXCEPT ![c] = NoRet]
    /\ UNCHANGED <<client, wire, server, last>>

\* The task running the call of caller c is cancelled while it is suspended
\* in send, at line 87 or at line 93: CancelledError is raised there, and at
\* line 93 the future it awaits is cancelled with it. send has no handler
\* for it, so nothing else is done.
CancelledFuture == [done |-> TRUE, result |-> [NoFrame EXCEPT !.kind = CancelledError]]

Cancel(c) ==
    /\ pc[c] \in {"drain", "await"}
    /\ futs' = IF pc[c] = "await" /\ ~futs[fut[c]].done
               THEN [futs EXCEPT ![fut[c]] = CancelledFuture]
               ELSE futs
    /\ Finish(c, RetRaised(CancelledError))
    /\ UNCHANGED <<password, websocket, read_task, pending, registries, version,
                   connected, wire, server, last, op, rid, fut>>

\* ---------------------------------------------------------- the read task
\* One call func(key, data["new_value"]), with the loop that made it.
Invocation(via, pat, func, key, new_value) ==
    [via |-> via, pat |-> pat, func |-> func, key |-> key, new_value |-> new_value]

\* (C8's mutant: the subscribers of every key are called.)
KeyCallsEveryKey(key, new_value) ==
    SetToBag({Invocation("key", kf[1], kf[2], key, new_value) :
                kf \in {x \in (DOMAIN key_subscriptions) \X Listeners :
                            x[2] \in key_subscriptions[x[1]]}})

\* Lines 54-56: the calls made for the key subscribers, as a bag.
KeyCalls(key, new_value) ==
    IF key \in DOMAIN key_subscriptions
    THEN SetToBag({Invocation("key", key, func, key, new_value) :
                        func \in key_subscriptions[key]})
    ELSE EmptyBag

\* (C9's mutant: the prefix is compared with the whole key.)
MatchingPrefixesEqual(key) == {prefix \in DOMAIN prefix_subscriptions : prefix = key}

\* Lines 58-61: the prefixes whose subscribers are called.
MatchingPrefixes(key) == {prefix \in DOMAIN prefix_subscriptions : startswith(key, prefix)}

\* Lines 58-61: the calls made for the prefix subscribers, as a bag.
PrefixCalls(key, new_value) ==
    SetToBag({Invocation("prefix", pf[1], pf[2], key, new_value) :
                pf \in {x \in MatchingPrefixes(key) \X Listeners :
                            x[2] \in prefix_subscriptions[x[1]]}})

\* (C3's mutant: the response goes to the future created last.)
PendingFutureNewest(data) == Len(futs)

\* Line 40: the future a response is given to.
PendingFuture(data) == pending[data.request_id]

\* (C17's mutant: the newest frame is taken first.)
TakeNewest(q) == [frame |-> q[Len(q)], rest |-> SubSeq(q, 1, Len(q) - 1)]

\* Line 36, `async for message in self.websocket`: the next message is the
\* oldest one not yet taken.
Take(q) == [frame |-> Head(q), rest |-> Tail(q)]

\* (C16's mutant: the table is indexed without the test of line 39.)
WeirdRequestIdRaises(data) ==
    /\ read_task' = "crashed"
    /\ last' = Entry(data, KeyError, EmptyBag)
    /\ UNCHANGED <<futs, version, connected>>

\* Lines 41-44: the request id is not in the table; a line is printed and
\* the loop goes on to the next message.
WeirdRequestId(data) ==
    /\ last' = Entry(data, "weird request_id", EmptyBag)
    /\ UNCHANGED <<read_task, futs, version, connected>>

\* __read_task, lines 36-64: the loop body for one inbound frame, or the
\* end of the loop when the transport has closed and nothing is left.
\* An exception raised in the body ends the task.
ReadTask ==
    /\ read_task = "running"
    /\ IF inbox = <<>>
       THEN /\ websocket = "closed"
            /\ read_task' = "ended"
            /\ UNCHANGED <<inbox, futs, version, connected, last>>
       ELSE LET data == Take(inbox).frame IN
            /\ inbox' = Take(inbox).rest
            /\ CASE data.kind = "malformed" ->
                        \* json.loads raises
                        /\ read_task' = "crashed"
                        /\ last' = Entry(data, "JSONDecodeError", EmptyBag)
                        /\ UNCHANGED <<futs, version, connected>>
                 [] data.kind = "response" ->
                        IF data.request_id \in DOMAIN pending
                        THEN IF futs[PendingFuture(data)].done
                             THEN \* set_result on a done future raises
                                  /\ read_task' = "crashed"
                                  /\ last' = Entry(data, "InvalidStateError", EmptyBag)
                                  /\ UNCHANGED <<futs, version, connected>>
                             ELSE /\ futs' = [futs EXCEPT ![PendingFuture(data)] =
                                                 [done |-> TRUE, result |-> data]]
                                  /\ last' = Entry(data, "set_result", EmptyBag)
                                  /\ UNCHANGED <<read_task, version, connected>>
                        ELSE WeirdRequestId(data)
                 [] data.kind = "hello" ->
                        /\ version' = data.version
                        /\ connected' = TRUE
                        /\ last' = Entry(data, "hello", EmptyBag)
                        /\ UNCHANGED <<read_task, futs>>
                 [] data.kind = "push" ->
                        /\ last' = Entry(data, "push",
                                         KeyCalls(data.key, data.new_value)
                                           (+) PrefixCalls(data.key, data.new_value))
                        /\ UNCHANGED <<read_task, futs, version, connected>>
                 [] data.kind = "falsy" ->
                        \* lines 45-46: `if not data["type"]: continue`
                        /\ last' = Entry(data, "continue", EmptyBag)
                        /\ UNCHANGED <<read_task, futs, version, connected>>
                 [] data.kind = "other" ->
                        /\ last' = Entry(data, "print", EmptyBag)
                        /\ UNCHANGED <<read_task, futs, version, connected>>
    /\ UNCHANGED <<password, websocket, pending, registries, wire, nframes, callers>>

\* ------------------------------------------------------------- the server
Response(r, ok) == [NoFrame EXCEPT !.kind = "response", !.request_id = r, !.ok = ok]
Hello(v) == [NoFrame EXCEPT !.kind = "hello", !.version = v]
Push(k, v) == [NoFrame EXCEPT !.kind = "push", !.key = k, !.new_value = v]
Other == [NoFrame EXCEPT !.kind = "other"]
Falsy == [NoFrame EXCEPT !.kind = "falsy"]
Malformed == [NoFrame EXCEPT !.kind = "malformed"]

\* The server puts one more frame on the connection.
Emit(f) ==
    /\ websocket = "open"
    /\ nframes < MaxFrames
    /\ nframes' = nframes + 1
    /\ inbox' = Append(inbox, [f EXCEPT !.seq = nframes + 1])
    /\ UNCHANGED <<client, wire, last, callers>>

\* The request ids the server has been sent.
Received == {wire[i].request_id : i \in 1..Len(wire)}

\* The server answers a command it was sent, with success or with failure;
\* nothing keeps it from answering one twice.
ServerReply ==
    \/ \E r \in Received : Emit(Response(r, TRUE))
    \/ \E r \in Received : Emit(Response(r, FALSE))
ServerHello == \E v \in Versions : Emit(Hello(v))
ServerPush == \E k \in PushKeys, v \in Values : Emit(Push(k, v))
ServerOther == Emit(Other) \/ Emit(Falsy)
ServerMalformed == Emit(Malformed)

\* The transport closes: nothing more is sent either way.
ServerClose ==
    /\ websocket = "open"
    /\ websocket' = "closed"
    /\ UNCHANGED <<password, read_task, pending, futs, registries, version,
                   connected, wire, server, last, callers>>

\* ------------------------------------------------------- specifications
Next ==
    \/ \E c \in Callers : Connect(c)
    \/ \E c \in Callers : ConnectOpened(c)
    \/ \E c \in Callers : Send(c)
    \/ \E c \in Callers, k \in Patterns, l \in Listeners : subscribe(c, k, l)
    \/ \E c \in Callers, k \in Patterns, l \in Listeners : unsubscribe(c, k, l)
    \/ \E c \in Callers, k \in Patterns, l \in Listeners : subscribe_prefix(c, k, l)
    \/ \E c \in Callers, k \in Patterns, l \in Listeners : unsubscribe_prefix(c, k, l)
    \/ \E c \in Callers : SendRegister(c)
    \/ \E c \in Callers : SendResume(c)
    \/ \E c \in Callers : Cancel(c)
    \/ \E c \in Callers : Return(c)
    \/ ReadTask
    \/ ServerReply
    \/ ServerHello
    \/ ServerPush
    \/ ServerOther
    \/ ServerMalformed
    \/ ServerClose

Spec == Init /\ [][Next]_vars

\* The client once connect() has returned on a client without password
\* (Connect, ConnectOpened, Return from Init): the transport is open and
\* the read task runs.
InitConnected ==
    /\ password = None
    /\ websocket = "open"
    /\ read_task = "running"
    /\ pending = EmptyMap
    /\ futs = <<>>
    /\ key_subscriptions = EmptyMap
    /\ prefix_subscriptions = EmptyMap
    /\ version = None
    /\ connected = FALSE
    /\ wire = <<>>
    /\ inbox = <<>>
    /\ nframes = 0
    /\ last = NoEntry
    /\ pc = [c \in Callers |-> "idle"]
    /\ op = [c \in Callers |-> NoOp]
    /\ rid = [c \in Callers |-> None]
    /\ fut = [c \in Callers |-> 0]
    /\ ret = [c \in Callers |-> NoRet]

\* One caller subscribes and unsubscribes listeners of keys, one call after
\* the other; the server answers and pushes.
NextKeys ==
    \/ \E k \in Patterns, l \in Listeners : subscribe("c1", k, l)
    \/ \E k \in Patterns, l \in Listeners : unsubscribe("c1", k, l)
    \/ SendRegister("c1")
    \/ SendResume("c1")
    \/ Return("c1")
    \/ ReadTask
    \/ ServerReply
    \/ ServerPush

SpecKeys == InitConnected /\ [][NextKeys]_vars

\* The same with listeners of prefixes.
NextPrefixes ==
    \/ \E k \in Patterns, l \in Listeners : subscribe_prefix("c1", k, l)
    \/ \E k \in Patterns, l \in Listeners : unsubscribe_prefix("c1", k, l)
    \/ SendRegister("c1")
    \/ SendResume("c1")
    \/ Return("c1")
    \/ ReadTask
    \/ ServerReply
    \/ ServerPush

SpecPrefixes == InitConnected /\ [][NextPrefixes]_vars

\* Callers send commands concurrently; the server answers in any order and
\* the transport may close.
NextSend ==
    \/ \E c \in Callers : Send(c)
    \/ \E c \in Callers : SendRegister(c)
    \/ \E c \in Callers : SendResume(c)
    \/ \E c \in Callers : Return(c)
    \/ ReadTask
    \/ ServerReply
    \/ ServerClose

SpecSend == InitConnected /\ [][NextSend]_vars

\* One caller connects a new client, with or without a password.
NextConnect ==
    \/ Connect("c1")
    \/ ConnectOpened("c1")
    \/ SendRegister("c1")
    \/ SendResume("c1")
    \/ Return("c1")
    \/ ReadTask
    \/ ServerReply
    \/ ServerHello
    \/ ServerClose

SpecConnect == Init /\ [][NextConnect]_vars

\* Callers send commands concurrently and may be cancelled while they wait;
\* the server answers in any order.
NextCancel ==
    \/ \E c \in Callers : Send(c)
    \/ \E c \in Callers : SendRegister(c)
    \/ \E c \in Callers : SendResume(c)
    \/ \E c \in Callers : Cancel(c)
    \/ \E c \in Callers : Return(c)
    \/ ReadTask
    \/ ServerReply

SpecCancel == InitConnected /\ [][NextCancel]_vars

\* Two callers subscribe listeners of keys at the same time, each its own
\* listener; the server answers and pushes.
NextOverlap ==
    \/ \E k \in Patterns : subscribe("c1", k, "L1")
    \/ \E k \in Patterns : subscribe("c2", k, "L2")
    \/ \E c \in Callers : SendRegister(c)
    \/ \E c \in Callers : SendResume(c)
    \/ \E c \in Callers : Return(c)
    \/ ReadTask
    \/ ServerReply
    \/ ServerPush

SpecOverlap == InitConnected /\ [][NextOverlap]_vars

\* The client once subscribe(<<"a">>, "L1") has returned on it (subscribe,
\* SendRegister, ServerReply, ReadTask, SendResume, Return from
\* InitConnected): ksub was written under an id and acknowledged, the id is
\* still in the table and the listener is registered. The acknowledgement
\* is frame 0; nframes counts the frames that follow it.
Subscribed == [NoFrame EXCEPT !.kind = "response", !.request_id = "r1", !.ok = TRUE]

InitSubscribed ==
    /\ password = None
    /\ websocket = "open"
    /\ read_task = "running"
    /\ pending = DictSet(EmptyMap, "r1", 1)
    /\ futs = <<[done |-> TRUE, result |-> Subscribed]>>
    /\ key_subscriptions = DictSet(EmptyMap, <<"a">>, {"L1"})
    /\ prefix_subscriptions = EmptyMap
    /\ version = None
    /\ connected = FALSE
    /\ wire = <<[command |-> "ksub", arg |-> <<"a">>, request_id |-> "r1"]>>
    /\ inbox = <<>>
    /\ nframes = 0
    /\ last = Entry(Subscribed, "set_result", EmptyBag)
    /\ pc = [c \in Callers |-> "idle"]
    /\ op = [c \in Callers |-> NoOp]
    /\ rid = [c \in Callers |-> None]
    /\ fut = [c \in Callers |-> 0]
    /\ ret = [c \in Callers |-> NoRet]

\* One caller sends a command on a client with a registered listener while
\* the server emits frames of every kind.
NextFrames ==
    \/ Send("c1")
    \/ SendRegister("c1")
    \/ SendResume("c1")
    \/ Return("c1")
    \/ ReadTask
    \/ ServerReply
    \/ ServerPush
    \/ ServerOther
    \/ ServerMalformed

SpecFrames == InitSubscribed /\ [][NextFrames]_vars

\* =================================================================== claims
\* The listeners registered for a pattern: none when the pattern is not a
\* key of the dict.
ListenersOf(subscriptions, pattern) ==
    IF pattern \in DOMAIN subscriptions THEN subscriptions[pattern] ELSE {}

\* This step writes the command `command` for `pattern` to the transport.
Wrote(command, pattern) ==
    /\ Len(wire') = Len(wire) + 1
    /\ wire'[Len(wire')].command = command
    /\ wire'[Len(wire')].arg = pattern

\* C1 (as claimed): reference counting per pattern. ksub (ksub-prefix) is
\* written only by a step that finds the pattern without listener, the first
\* listener of a pattern is added only after ksub was written for it, and
\* kunsub (kunsub-prefix) is written by exactly the steps that remove the
\* last listener of the pattern.
C1_ReferenceCounting ==
    [][\A k \in Patterns :
        /\ Wrote("ksub", k) => ListenersOf(key_subscriptions, k) = {}
        /\ Wrote("ksub-prefix", k) => ListenersOf(prefix_subscriptions, k) = {}
        /\ (ListenersOf(key_subscriptions, k) = {}
              /\ ListenersOf(key_subscriptions', k) # {})
           => \E i \in 1..Len(wire) : wire[i].command = "ksub" /\ wire[i].arg = k
        /\ (ListenersOf(prefix_subscriptions, k) = {}
              /\ ListenersOf(prefix_subscriptions', k) # {})
           => \E i \in 1..Len(wire) :
                  wire[i].command = "ksub-prefix" /\ wire[i].arg = k
        /\ Wrote("kunsub", k)
           <=> (ListenersOf(key_subscriptions, k) # {}
                  /\ ListenersOf(key_subscriptions', k) = {})
        /\ Wrote("kunsub-prefix", k)
           <=> (ListenersOf(prefix_subscriptions, k) # {}
                  /\ ListenersOf(prefix_subscriptions', k) = {})
      ]_vars

\* No subscribe or unsubscribe call is in progress.
NoCallInProgress == \A c \in Callers : pc[c] \in {"idle", "returned"}

\* C2 (as claimed): registry invariant. While no call is in progress, every
\* pattern that is a key of a registry has at least one listener.
C2_RegistryInvariant ==
    NoCallInProgress =>
        /\ \A k \in DOMAIN key_subscriptions : key_subscriptions[k] # {}
        /\ \A k \in DOMAIN prefix_subscriptions : prefix_subscriptions[k] # {}

\* Caller c starts the method `name` on `pattern` in this step.
Calls(c, name, pattern) ==
    /\ pc[c] = "idle"
    /\ pc'[c] # "idle"
    /\ op'[c].name = name
    /\ op'[c].pat = pattern

\* C6 (as claimed): unsubscribe of a pattern that has no listener raises
\* NotSubscribed, writes no command and leaves both registries as they are.
C6_UnsubscribeUnregistered ==
    [][\A c \in Callers, k \in Patterns :
        /\ (Calls(c, "unsubscribe", k) /\ ListenersOf(key_subscriptions, k) = {})
           => /\ pc'[c] = "returned"
              /\ ret'[c] = RetRaised(KeyNotSubscribed)
              /\ wire' = wire
              /\ registries' = registries
        /\ (Calls(c, "unsubscribe_prefix", k)
              /\ ListenersOf(prefix_subscriptions, k) = {})
           => /\ pc'[c] = "returned"
              /\ ret'[c] = RetRaised(PrefixNotSubscribed)
              /\ wire' = wire
              /\ registries' = registries
      ]_vars

\* C7 (as claimed): a subscribe call whose ksub (ksub-prefix) was answered
\* with a failure raises, and its listener is not registered for its
\* pattern.
C7_FailedSubscribeNotRegistered ==
    \A c \in Callers :
        (/\ pc[c] = "returned"
         /\ op[c].name \in {"subscribe", "subscribe_prefix"}
         /\ fut[c] # 0
         /\ ~futs[fut[c]].result.ok)
        => /\ ret[c].status = "raised"
           /\ op[c].name = "subscribe"
                => op[c].cb \notin ListenersOf(key_subscriptions, op[c].pat)
           /\ op[c].name = "subscribe_prefix"
                => op[c].cb \notin ListenersOf(prefix_subscriptions, op[c].pat)

\* The read task takes a push frame in this step.
TakesPush ==
    /\ read_task = "running"
    /\ inbox # <<>>
    /\ Head(inbox).kind = "push"
    /\ inbox' = Tail(inbox)

\* C8: exact-key push dispatch. When the read task takes a push frame for
\* key k, the calls it makes through the key registry are exactly one call
\* (k, new_value) per listener registered under k at that moment; no
\* listener registered only under another key is called.
C8_KeyDispatch ==
    [][TakesPush =>
        LET k == Head(inbox).key
            v == Head(inbox).new_value
            calls == last'.calls
        IN  /\ last'.frame = Head(inbox)
            /\ \A l \in Listeners :
                  CopiesIn(Invocation("key", k, l, k, v), calls) =
                      IF l \in ListenersOf(key_subscriptions, k) THEN 1 ELSE 0
            /\ \A e \in BagToSet(calls) :
                  e.via = "key" =>
                      /\ e.pat = k /\ e.key = k /\ e.new_value = v
                      /\ e.func \in ListenersOf(key_subscriptions, k)
      ]_vars

\* C8's case: the last push called a listener of its key while a listener
\* registered only under another key was left alone.
C8_Witness ==
    /\ last.effect = "push"
    /\ \E e \in BagToSet(last.calls) : e.via = "key"
    /\ \E k \in DOMAIN key_subscriptions, l \in Listeners :
          /\ k # last.frame.key
          /\ l \in key_subscriptions[k]
          /\ l \notin ListenersOf(key_subscriptions, last.frame.key)
          /\ \A e \in BagToSet(last.calls) : e.func # l

\* p is a literal string prefix of k.
IsLiteralPrefix(p, k) == Len(p) <= Len(k) /\ SubSeq(k, 1, Len(p)) = p

\* C9: prefix push dispatch. When the read task takes a push frame for key
\* k, every listener of every registered prefix that is a literal prefix of
\* k is called with (k, new_value), and no listener is called for a prefix
\* that is not a prefix of k.
C9_PrefixDispatch ==
    [][TakesPush =>
        LET k == Head(inbox).key
            v == Head(inbox).new_value
            calls == last'.calls
        IN  /\ \A p \in DOMAIN prefix_subscriptions : \A l \in prefix_subscriptions[p] :
                  IF IsLiteralPrefix(p, k)
                  THEN CopiesIn(Invocation("prefix", p, l, k, v), calls) >= 1
                  ELSE \A e \in BagToSet(calls) : ~(e.via = "prefix" /\ e.pat = p)
            /\ \A e \in BagToSet(calls) :
                  e.via = "prefix" =>
                      /\ e.key = k /\ e.new_value = v
                      /\ IsLiteralPrefix(e.pat, k)
                      /\ e.func \in ListenersOf(prefix_subscriptions, e.pat)
      ]_vars

\* C9's case: the last push, for a key longer than a registered prefix of
\* it, called that prefix's listener, while a listener of a registered
\* prefix that is no prefix of the key was left alone.
C9_Witness ==
    /\ last.effect = "push"
    /\ \E e \in BagToSet(last.calls) :
          e.via = "prefix" /\ Len(e.pat) < Len(last.frame.key)
    /\ \E p \in DOMAIN prefix_subscriptions, l \in Listeners :
          /\ ~IsLiteralPrefix(p, last.frame.key)
          /\ l \in prefix_subscriptions[p]
          /\ \A e \in BagToSet(last.calls) : e.func # l

\* C3: send correlation. A send call that returns, returns a response frame
\* the server emitted and whose request_id is the one the call put into its
\* own command.
C3_SendCorrelation ==
    \A c \in Callers :
        (pc[c] = "returned" /\ op[c].name = "send" /\ ret[c].status = "ok")
        => /\ ret[c].value.kind = "response"
           /\ ret[c].value.request_id = rid[c]
           /\ ret[c].value.seq \in 1..nframes

\* C3's case: two send calls were outstanding together under different
\* request ids, the server answered the second command first, and both
\* calls have returned.
C3_Witness ==
    /\ pc["c1"] = "returned" /\ pc["c2"] = "returned"
    /\ op["c1"].name = "send" /\ op["c2"].name = "send"
    /\ ret["c1"].status = "ok" /\ ret["c2"].status = "ok"
    /\ rid["c1"] # rid["c2"]
    /\ Len(wire) >= 2
    /\ wire[1].request_id = rid["c1"] /\ wire[2].request_id = rid["c2"]
    /\ ret["c1"].value.seq > ret["c2"].value.seq

\* C4 (as claimed): once the inbound frames have ended and the read task
\* with them, no send call is left awaiting a future that is not done.
C4_PendingFailOnClose ==
    read_task = "ended" =>
        \A c \in Callers : pc[c] = "await" => futs[fut[c]].done

\* C5: a send call started on a closed transport raises at once: no frame
\* is written and the pending table does not change.
C5_SendAfterClose ==
    [][\A c \in Callers :
        (websocket = "closed" /\ pc[c] = "idle" /\ pc'[c] # "idle"
           /\ op'[c].name = "send")
        => /\ pc'[c] = "returned"
           /\ ret'[c] = RetRaised(ConnectionClosed)
           /\ wire' = wire
           /\ pending' = pending
           /\ futs' = futs
      ]_vars

\* C5's case: a send call made after the transport closed has raised, with
\* an earlier call still in the pending table.
C5_Witness ==
    /\ websocket = "closed"
    /\ DOMAIN pending # {}
    /\ \E c \in Callers :
          /\ pc[c] = "returned"
          /\ op[c].name = "send"
          /\ ret[c] = RetRaised(ConnectionClosed)

\* C10: authentication ordering. With a password, kauth is written only
\* after klogin was answered; connect returns only after a response with ok
\* carrying kauth's request id was received; and when the response to kauth
\* is not ok, connect raises the server's error.
C10_AuthenticationOrdering ==
    \A c \in Callers :
        (op[c].name = "connect" /\ password # None) =>
            /\ \A i \in 1..Len(wire) :
                  wire[i].command = "kauth" =>
                      /\ i = 2 /\ wire[1].command = "klogin"
                      /\ Len(futs) >= 1
                      /\ futs[1].done /\ futs[1].result.ok
                      /\ futs[1].result.kind = "response"
                      /\ futs[1].result.request_id = wire[1].request_id
            /\ (pc[c] = "returned" /\ ret[c].status = "ok") =>
                  /\ op[c].command = "kauth"
                  /\ fut[c] = 2
                  /\ futs[2].done /\ futs[2].result.ok
                  /\ futs[2].result.kind = "response"
                  /\ futs[2].result.request_id = wire[2].request_id
            /\ (pc[c] = "returned" /\ op[c].command = "kauth" /\ fut[c] = 2
                  /\ ~futs[2].result.ok) =>
                  ret[c] = RetRaised(ServerError)

\* C10's case: connect has returned on a client with a password.
C10_Witness ==
    /\ password # None
    /\ \E c \in Callers :
          /\ pc[c] = "returned"
          /\ op[c].name = "connect"
          /\ ret[c].status = "ok"

\* C10's other case: the server refused kauth and connect has raised.
C10_Refused ==
    /\ password # None
    /\ \E c \in Callers :
          /\ pc[c] = "returned"
          /\ op[c].name = "connect"
          /\ op[c].command = "kauth"
          /\ fut[c] = 2
          /\ ret[c] = RetRaised(ServerError)

\* C11 (as claimed): connect suspends until hello was processed. Whenever
\* connect has returned successfully, the session is marked connected and
\* the protocol version is recorded.
C11_ConnectAwaitsHello ==
    \A c \in Callers :
        (pc[c] = "returned" /\ op[c].name = "connect" /\ ret[c].status = "ok")
        => /\ connected
           /\ version # None

\* Caller c is cancelled in this step while it awaits its future.
CancelledAwaiting(c) ==
    /\ pc[c] = "await"
    /\ pc'[c] = "returned"
    /\ ret'[c] = RetRaised(CancelledError)

\* The read task takes a response frame in this step.
TakesResponse ==
    /\ read_task = "running"
    /\ inbox # <<>>
    /\ Head(inbox).kind = "response"
    /\ inbox' = Tail(inbox)

\* C12 (as claimed): cancellation. The step that cancels a caller awaiting
\* send removes the caller's request id from the pending table, and the
\* response to a cancelled request, when it arrives later, leaves the read
\* task running, so that the other requests in flight are still resolved.
C12_Cancellation ==
    [][/\ \A c \in Callers :
            CancelledAwaiting(c) => rid[c] \notin DOMAIN pending'
       /\ (/\ TakesResponse
           /\ Head(inbox).request_id \in DOMAIN pending
           /\ futs[pending[Head(inbox).request_id]] = CancelledFuture)
          => read_task' = "running"
      ]_vars

\* C13 (as claimed): pending-table invariant. A request id is in the pending
\* table only while its request is in flight: no entry of the table is one
\* whose response the read task has processed.
C13_PendingTableInvariant ==
    \A r \in DOMAIN pending : ~futs[pending[r]].done

\* Two subscribe calls for key k with different listeners have overlapped
\* (each found k without entry and awaited the answer to its own ksub,
\* under its own request id) and both have returned.
OverlappedSubscribes(k) ==
    \E c, d \in Callers :
        /\ c # d
        /\ pc[c] = "returned" /\ pc[d] = "returned"
        /\ op[c].name = "subscribe" /\ op[d].name = "subscribe"
        /\ op[c].pat = k /\ op[d].pat = k
        /\ op[c].cb # op[d].cb
        /\ fut[c] # 0 /\ fut[d] # 0
        /\ rid[c] # rid[d]
        /\ ret[c].status = "ok" /\ ret[d].status = "ok"

\* C14 (as claimed): no lost update on concurrent subscribe. After two
\* overlapping subscribe calls for the same key with different listeners
\* have returned, both listeners are registered under the key, and a push
\* for the key taken then calls both.
C14_NoLostUpdate ==
    [][\A k \in Patterns :
        OverlappedSubscribes(k) =>
            /\ \A c \in Callers : op[c].cb \in ListenersOf(key_subscriptions, k)
            /\ (TakesPush /\ Head(inbox).key = k) =>
                  \A c \in Callers :
                      CopiesIn(Invocation("key", k, op[c].cb, k, Head(inbox).new_value),
                               last'.calls) = 1
      ]_vars

\* The read task takes a frame that does not parse in this step.
TakesMalformed ==
    /\ read_task = "running"
    /\ inbox # <<>>
    /\ Head(inbox).kind = "malformed"
    /\ inbox' = Tail(inbox)

\* C15 (as claimed): a frame that cannot be parsed does not end the read
\* loop: the read task is still running after it has taken the frame, so
\* that the frames behind it are processed.
C15_MalformedFrameSurvived ==
    [][TakesMalformed => read_task' = "running"]_vars

\* The read task takes, in this step, a response whose request id is not
\* in the pending table.
TakesUnroutable ==
    /\ TakesResponse
    /\ Head(inbox).request_id \notin DOMAIN pending

\* C16: an unroutable response is only reported. The step of the read task
\* that takes it resolves no future, leaves the pending table and both
\* registries as they are, calls no listener, resumes no caller, and leaves
\* the read task running for the next frame.
C16_UnroutableOnlyReported ==
    [][TakesUnroutable =>
        /\ last'.frame = Head(inbox)
        /\ last'.calls = EmptyBag
        /\ futs' = futs
        /\ pending' = pending
        /\ registries' = registries
        /\ callers' = callers
        /\ read_task' = "running"
      ]_vars

\* C16's case: the read task has reported an unroutable response while a
\* listener was registered and the table was not empty; it is still running
\* and the next frame is waiting.
C16_Witness ==
    /\ last.effect = "weird request_id"
    /\ last.frame.request_id \notin DOMAIN pending
    /\ read_task = "running"
    /\ DOMAIN pending # {}
    /\ DOMAIN key_subscriptions # {}
    /\ inbox # <<>>

\* The frames not yet taken are in wire order, behind the frame taken last.
InWireOrder ==
    \A i \in 1..Len(inbox) : inbox[i].seq = last.frame.seq + i

\* C17: wire-order dispatch. The read task handles the frames one at a time
\* in the order the server emitted them: each step that handles a frame
\* handles the oldest frame not yet taken, which is the one that follows the
\* frame handled before, and does all of its work in that step: every call
\* to a listener for a push is made before the next frame is looked at, and
\* a response that arrives between two pushes resolves its future after the
\* calls of the first push and before those of the second.
C17_WireOrderDispatch ==
    [][/\ InWireOrder
       /\ last' # last =>
            /\ inbox # <<>>
            /\ last'.frame = Head(inbox)
            /\ last'.frame.seq = last.frame.seq + 1
            /\ inbox' = Tail(inbox)
            /\ \A e \in BagToSet(last'.calls) :
                  /\ last'.frame.kind = "push"
                  /\ e.key = last'.frame.key
            /\ last'.effect = "set_result" =>
                  /\ last'.frame.kind = "response"
                  /\ futs'[pending[last'.frame.request_id]].result = last'.frame
            /\ futs' # futs => last'.effect = "set_result"
      ]_vars

\* C17's case: the read task has called a listener for a push, and behind
\* that push on the wire wait a response for a request in flight and then
\* another push for a key with a listener.
C17_Witness ==
    /\ last.effect = "push"
    /\ last.calls # EmptyBag
    /\ Len(inbox) = 2
    /\ inbox[1].kind = "response"
    /\ inbox[1].request_id \in DOMAIN pending
    /\ ~futs[pending[inbox[1].request_id]].done
    /\ inbox[2].kind = "push"
    /\ inbox[2].key \in DOMAIN key_subscriptions

\* C18 (as claimed): a send call about to store its future under a request
\* id that another send call in flight is registered under fails (with
\* DuplicateRequestId) and leaves the pending table as it is.
C18_DuplicateRequestId ==
    [][\A c \in Callers :
        (/\ pc[c] = "drain"
         /\ pc'[c] # "drain"
         /\ \E d \in Callers \ {c} :
               /\ pc[d] = "await"
               /\ rid[d] = rid[c]
               /\ pending[rid[d]] = fut[d]
               /\ ~futs[fut[d]].done)
        => /\ pending' = pending
           /\ pc'[c] = "returned"
           /\ ret'[c].status = "raised"
      ]_vars

\* C19 (as claimed): no lost response between write and registration. A
\* response carrying the request id of a command that a send call has
\* written, and whose call has not been answered yet, is never treated as
\* unroutable by the read task, whether or not the call has stored its
\* future by then.
C19_NoLostResponse ==
    [][\A c \in Callers :
        (/\ TakesResponse
         /\ Head(inbox).request_id = rid[c]
         /\ \/ pc[c] = "drain"
            \/ pc[c] = "await" /\ ~futs[fut[c]].done)
        => last'.effect # "weird request_id"
      ]_vars

\* The read task takes, in this step, a response whose request id is in the
\* pending table with a future that is already done.
TakesSecondResponse ==
    /\ TakesResponse
    /\ Head(inbox).request_id \in DOMAIN pending
    /\ futs[pending[Head(inbox).request_id]].done

\* C20 (as claimed): single resolution. No future is written after it is
\* done, and the step of the read task that takes a second response for a
\* request id already answered resolves nothing and leaves the read task
\* running for the frames that follow.
C20_SingleResolution ==
    [][/\ \A i \in 1..Len(futs) : futs[i].done => futs'[i] = futs[i]
       /\ TakesSecondResponse =>
            /\ futs' = futs
            /\ read_task' = "running"
      ]_vars

=============================================================================
